---------------------------- MODULE Spec2Model ----------------------------
(***************************************************************************)
(* Model of erkan80898/mandelbrot_opencl: an OpenCL Mandelbrot renderer.   *)
(*                                                                         *)
(* The repository holds two variants of the same program:                  *)
(*   "main_cp"  src/main_cp.rs   the kernel writes one iteration count per *)
(*              pixel; the host colours them with a continuous gradient.   *)
(*   "main"     src/src/main.rs  the kernel colours each pixel itself from *)
(*              a discrete palette and writes RGBA bytes.                  *)
(*                                                                         *)
(* f32 values are modelled in binary fixed point with FracBits fractional  *)
(* bits (a value v is the integer v * 2^FracBits); every product and       *)
(* quotient is rounded to the nearest representable value, as the float    *)
(* operations round.  The viewport constants are exactly representable in  *)
(* both; long orbits near the set's boundary may differ in their last      *)
(* iterations, as they do between float precisions.                        *)
(***************************************************************************)
EXTENDS Integers, Sequences, FiniteSets, TLC

VARIABLES
    variant,    \* which program: "main" or "main_cp"
    dims,       \* <<dims.0, dims.1>> handed to Interface_Opencl::new
    env,        \* the OpenCL environment the program is started in
    pc,         \* position of the host thread
    pending,    \* work items of the enqueued kernel that have not run yet
    buffer,     \* the device buffer (read_buffer / buffer_colors)
    writers,    \* per buffer index, the work items that have written it
    oob,        \* writes that fell outside the device buffer
    result,     \* Interface_Opencl.result, the host copy
    frame,      \* what the last draw put on screen
    dispatches, \* completed calls of work()
    zoomEvents, \* mouse-wheel events delivered to the event handler
    iter_limit, \* the kernel argument iter_limit
    wi,         \* one work item executing the kernel step by step
    cm          \* one application of a colour mapper

vars == <<variant, dims, env, pc, pending, buffer, writers, oob, result,
          frame, dispatches, zoomEvents, iter_limit, wi, cm>>

(***************************************************************************)
(* Bounds of the model.                                                    *)
(***************************************************************************)
FracBits == 10
MaxDim == 4
MaxCells == 8
MaxIterLimit == 6
MaxZoomEvents == 2

(***************************************************************************)
(* Fixed-point arithmetic standing for f32.                                *)
(***************************************************************************)
SCALE == 2^FracBits

RoundDiv(a, b) == (2 * a + b) \div (2 * b)

FMul(a, b) == RoundDiv(a * b, SCALE)

Variants == {"main", "main_cp"}

(***************************************************************************)
(* Program constants.                                                      *)
(***************************************************************************)
MAX_ITER == 256

\* main_cp.rs, host side (unused by the kernel, which has its own literals)
R_MIN == -((225 * SCALE) \div 100)
R_MAX == (75 * SCALE) \div 100
C_MIN == -((15 * SCALE) \div 10)
C_MAX == (15 * SCALE) \div 10

\* KERNEL_SRC: const float r_max = -2.25f; r_min = 0.75f; c_max = 1.5f; c_min = -1.5f
r_max == -((225 * SCALE) \div 100)
r_min == (75 * SCALE) \div 100
c_max == (15 * SCALE) \div 10
c_min == -((15 * SCALE) \div 10)

(***************************************************************************)
(* KERNEL_SRC mandelbrot: the coordinate of a pixel.                       *)
(*   float x0 = r_min + px * ((r_max - r_min) / width);                    *)
(*   float y0 = c_min + py * ((c_max - c_min) / height);                   *)
(***************************************************************************)
pixel_x0(px, width) == r_min + px * RoundDiv(r_max - r_min, width)

pixel_y0(py, height) == c_min + py * RoundDiv(c_max - c_min, height)

(***************************************************************************)
(* KERNEL_SRC mandelbrot: the escape loop.                                 *)
(*   for (iteration = 0; iteration < iter_limit; iteration++) {            *)
(*       float xn = x * x - y * y + x0;                                    *)
(*       y = 2 * x * y + y0;                                               *)
(*       x = xn;                                                           *)
(*       if (x * x + y * y > 2.0f) break;                                  *)
(*   }                                                                     *)
(***************************************************************************)
LoopCondOffByOne(iteration, limit) == iteration <= limit

LoopCond(iteration, limit) == iteration < limit

EscapeTest(x, y) == FMul(x, x) + FMul(y, y) > 2 * SCALE

\* One pass through the loop for a work item s whose LoopCond holds.
LoopBody(s) ==
    LET xn == FMul(s.x, s.x) - FMul(s.y, s.y) + s.x0
        yn == FMul(2 * s.x, s.y) + s.y0
    IN  IF EscapeTest(xn, yn)
        THEN [s EXCEPT !.x = xn, !.y = yn, !.broke = TRUE, !.pc = "store"]
        ELSE [s EXCEPT !.x = xn, !.y = yn, !.iteration = s.iteration + 1]

\* The loop head: leave the loop when the condition fails.
LoopStep(s, limit) ==
    IF LoopCond(s.iteration, limit) THEN LoopBody(s)
    ELSE [s EXCEPT !.pc = "store"]

\* A work item on entry to the kernel: px = get_global_id(0),
\* py = get_global_id(1); its other locals are not set yet.
WorkItemEntry(px, py) ==
    [px |-> px, py |-> py, x0 |-> 0, y0 |-> 0,
     x |-> 0, y |-> 0, iteration |-> 0, broke |-> FALSE, pc |-> "entry"]

\* A work item at the start of the loop: x0, y0 computed, x = y = 0.
WorkItemStart(px, py, width, height) ==
    [px |-> px, py |-> py,
     x0 |-> pixel_x0(px, width), y0 |-> pixel_y0(py, height),
     x |-> 0, y |-> 0, iteration |-> 0, broke |-> FALSE, pc |-> "loop"]

\* n further steps of a work item (a work item that has left the loop stays
\* as it is).  The steps are split in halves to keep the evaluation shallow.
RECURSIVE RunSteps(_, _, _)
RunSteps(s, limit, n) ==
    IF n = 0 \/ s.pc # "loop" THEN s
    ELSE IF n = 1 THEN LoopStep(s, limit)
    ELSE LET half == RunSteps(s, limit, n \div 2)
         IN  RunSteps(half, limit, n - n \div 2)

\* The loop run to its end: at most limit passes and the failing test.
RunLoop(s, limit) == RunSteps(s, limit, limit + 1)

\* The value of `iteration` when the loop of pixel (px, py) is left.
Iterations(px, py, width, height, limit) ==
    RunLoop(WorkItemStart(px, py, width, height), limit).iteration

(***************************************************************************)
(* KERNEL_SRC mandelbrot: the buffer index a work item writes.             *)
(*   iterations[width * py + px] = iteration;   (main_cp)                  *)
(*   int idx = width * py + px;                 (main)                     *)
(***************************************************************************)
BufIndexTransposed(width, px, py) == width * px + py

BufIndex(width, px, py) == width * py + px

(***************************************************************************)
(* Transcendental functions (sinpi, log2) are evaluated in fixed point     *)
(* with 14 fractional bits; TMul rounds to nearest.                        *)
(***************************************************************************)
TSCALE == 2^14

TMul(a, b) == RoundDiv(a * b, TSCALE)

\* sinpi(x) = sin(pi * x) for x in [0, 1/2], by the Taylor polynomial of
\* degree 11 in Horner form; 51472 is pi at 14 fractional bits.
sinpi(x) ==
    LET th == TMul(51472, x)
        t2 == TMul(th, th)
        p5 == TSCALE - RoundDiv(t2, 110)
        p4 == TSCALE - RoundDiv(TMul(t2, p5), 72)
        p3 == TSCALE - RoundDiv(TMul(t2, p4), 42)
        p2 == TSCALE - RoundDiv(TMul(t2, p3), 20)
        p1 == TSCALE - RoundDiv(TMul(t2, p2), 6)
    IN  TMul(th, p1)

\* log2(v) for v > 0: the integer part by halving, then 14 fractional bits
\* by repeated squaring.
RECURSIVE Log2Frac(_, _)
Log2Frac(v, bit) ==
    IF bit > 14 THEN 0
    ELSE LET sq == TMul(v, v)
         IN  IF sq >= 2 * TSCALE
             THEN TSCALE \div (2^bit) + Log2Frac(RoundDiv(sq, 2), bit + 1)
             ELSE Log2Frac(sq, bit + 1)

RECURSIVE log2(_)
log2(v) ==
    IF v >= 2 * TSCALE THEN TSCALE + log2(RoundDiv(v, 2))
    ELSE Log2Frac(v, 1)

(***************************************************************************)
(* src/src/main.rs, the discrete policy inside the kernel.                 *)
(*   const unsigned char palette[16][3] = { 15 initialisers };             *)
(* The sixteenth row has no initialiser and is zero.                       *)
(***************************************************************************)
palette ==
    << <<66, 30, 15>>,   <<25, 7, 26>>,     <<9, 1, 47>>,      <<4, 4, 73>>,
       <<0, 7, 100>>,    <<12, 44, 138>>,   <<24, 82, 177>>,   <<57, 125, 209>>,
       <<134, 181, 229>>, <<221, 236, 248>>, <<241, 201, 95>>,  <<255, 170, 0>>,
       <<204, 128, 0>>,  <<153, 87, 0>>,    <<106, 52, 3>>,    <<0, 0, 0>> >>

\* Rows of the table: palette[0] .. palette[15].
PaletteRows == 0 .. (Len(palette) - 1)

\* What a read past the end of the table may deliver (whatever lies behind
\* it in the work item's private memory).
StrayRows == { <<0, 0, 0>>, <<255, 255, 255>> }

\*   x = iteration * 1.0 / iter_limit;
\*   int z = round(sinpi(x/2) * 16);
PaletteIndex(iteration, limit) ==
    LET x == RoundDiv(iteration * TSCALE, limit)
    IN  RoundDiv(sinpi(RoundDiv(x, 2)) * 16, TSCALE)

\*   palette[z]: the rows a read of index z may deliver
PaletteRead(z) ==
    IF z \in PaletteRows THEN { palette[z + 1] } ELSE StrayRows

\*   if (iteration == iter_limit) colors[idx] = {0,0,0,255};
\*   else colors[idx] = {palette[z][0], palette[z][1], palette[z][2], 255};
KernelColors(iteration, limit) ==
    IF iteration = limit THEN { <<0, 0, 0, 255>> }
    ELSE { <<c[1], c[2], c[3], 255>> :
             c \in PaletteRead(PaletteIndex(iteration, limit)) }

(***************************************************************************)
(* The continuous policy on the host: build_grad and color.                *)
(***************************************************************************)
build_grad ==
    << <<9, 1, 47>>,     <<4, 4, 47>>,      <<0, 7, 100>>,    <<12, 44, 138>>,
       <<24, 82, 177>>,  <<57, 125, 209>>,  <<134, 181, 229>>, <<211, 236, 248>>,
       <<241, 233, 191>>, <<248, 201, 95>>, <<255, 170, 0>>,  <<106, 52, 3>> >>

\* Gradient::get(t): the stops are evenly spaced over [0, 1]; outside the
\* domain the end stops are returned; inside, the two bracketing stops are
\* mixed linearly.  Each component is then cast `as u8` (truncation).
GradientGet(grad, t) ==
    LET n   == Len(grad) - 1
        pos == t * n
        seg == pos \div TSCALE
        fr  == pos % TSCALE
    IN  IF pos <= 0 THEN grad[1]
        ELSE IF seg >= n THEN grad[n + 1]
        ELSE [k \in 1..3 |->
                (grad[seg + 1][k] * TSCALE
                   + (grad[seg + 2][k] - grad[seg + 1][k]) * fr) \div TSCALE]

\*   if iter == MAX_ITER { (0,0,0,255) } else {
\*     let x = (iter as f32/MAX_ITER as f32 * 4.0 + 1.0).log2();
\*     let x = x/(4.0+1.0 as f32).log2();
\*     let color = grad.get(x).into_components(); (r as u8, g as u8, b as u8, 255) }
color(iter) ==
    IF iter = MAX_ITER THEN <<0, 0, 0, 255>>
    ELSE LET v == RoundDiv(iter * TSCALE, MAX_ITER) * 4 + TSCALE
             x == RoundDiv(log2(v) * TSCALE, log2(5 * TSCALE))
             c == GradientGet(build_grad, x)
         IN  <<c[1], c[2], c[3], 255>>

(***************************************************************************)
(* The application: Interface_Opencl, App and its event handler.           *)
(***************************************************************************)
Envs == {"ok", "no_accelerator", "build_error"}

\* The grids the application is started with: main passes (800, 800); here
\* every dims up to MaxDim in each axis with at most MaxCells pixels.
AppDims == { d \in (1..MaxDim) \X (1..MaxDim) : d[1] * d[2] <= MaxCells }

\* .global_work_size(dims) / ProQue .dims(dims): one work item per
\* (get_global_id(0), get_global_id(1)) in dims.0 x dims.1
WorkItems(d) == (0..(d[1] - 1)) \X (0..(d[2] - 1))

\* Buffer length: dims.0 * dims.1 elements (u32, or groups of four u8).
BufLen(d) == d[1] * d[2]

\* What the device buffer holds before any work item has written it:
\* main fills it with 0u8; main_cp leaves it unwritten (-1 stands for that).
InitialCell(v) == IF v = "main" THEN <<0, 0, 0, 0>> ELSE -1

\* result: vec![0; len]
ZeroCell(v) == IF v = "main" THEN <<0, 0, 0, 0>> ELSE 0

\* The iteration count every pixel of every grid ends its loop with, when
\* the kernel is run with iter_limit = MAX_ITER as the host builds it.
IterTable ==
    [d \in AppDims |->
        [p \in WorkItems(d) |-> Iterations(p[1], p[2], d[1], d[2], MAX_ITER)]]

\* What the kernel stores for a pixel whose loop ended with `iteration`:
\* the count itself (main_cp) or its colour (main).
StoreValues(v, iteration, limit) ==
    IF v = "main" THEN KernelColors(iteration, limit) ELSE { iteration }

\* The values work item p of grid d may store into the buffer.
KernelOutputs(v, d, p) == StoreValues(v, IterTable[d][p], MAX_ITER)

NoFrame == [drawn |-> FALSE]

IdleItem == [pc |-> "idle"]

IdleMapper == [pc |-> "idle"]

Init ==
    /\ variant \in Variants
    /\ dims \in AppDims
    /\ env \in Envs
    /\ pc = "start"
    /\ pending = {}
    /\ buffer = << >>
    /\ writers = << >>
    /\ oob = {}
    /\ result = << >>
    /\ frame = NoFrame
    /\ dispatches = 0
    /\ zoomEvents = 0
    /\ iter_limit = MAX_ITER
    /\ wi = IdleItem
    /\ cm = IdleMapper

\* Interface_Opencl::new: every step is .unwrap()ped, so a missing platform
\* or device, or a failing build, panics; otherwise the buffer, the kernel
\* and the zeroed result vector exist.
New ==
    /\ pc = "start"
    /\ IF env = "ok"
       THEN /\ pc' = "created"
            /\ buffer' = [i \in 0..(BufLen(dims) - 1) |-> InitialCell(variant)]
            /\ writers' = [i \in 0..(BufLen(dims) - 1) |-> << >>]
            /\ result' = [i \in 0..(BufLen(dims) - 1) |-> ZeroCell(variant)]
       ELSE /\ pc' = "panicked"
            /\ UNCHANGED <<buffer, writers, result>>
    /\ UNCHANGED <<variant, dims, env, pending, oob, frame, dispatches,
                   zoomEvents, iter_limit, wi, cm>>

\* work(), first half: unsafe { self.kernel.enq().unwrap(); }
\* App::new calls work() once, before the event loop is entered.
Enqueue ==
    /\ pc = "created"
    /\ pc' = "enqueued"
    /\ pending' = WorkItems(dims)
    /\ UNCHANGED <<variant, dims, env, buffer, writers, oob, result, frame,
                   dispatches, zoomEvents, iter_limit, wi, cm>>

\* One work item of the kernel, run by the device in any order:
\*   if (px >= width || py >= height) return;
\*   ... buffer[width * py + px] = value
WorkItem(p) ==
    /\ p \in pending
    /\ pending' = pending \ {p}
    /\ LET width  == dims[1]
           height == dims[2]
           idx    == BufIndex(width, p[1], p[2])
       IN  IF p[1] >= width \/ p[2] >= height
           THEN UNCHANGED <<buffer, writers, oob>>
           ELSE IF idx \in DOMAIN buffer
           THEN /\ \E val \in KernelOutputs(variant, dims, p) :
                      buffer' = [buffer EXCEPT ![idx] = val]
                /\ writers' = [writers EXCEPT ![idx] = Append(@, p)]
                /\ oob' = oob
           ELSE /\ oob' = oob \cup {<<p, idx>>}
                /\ UNCHANGED <<buffer, writers>>
    /\ UNCHANGED <<variant, dims, env, pc, result, frame, dispatches,
                   zoomEvents, iter_limit, wi, cm>>

\* The read is enqueued on the same in-order queue as the kernel and blocks
\* the host: it copies once every work item has finished.
ReadReadyNoWait == TRUE

ReadReady == pending = {}

\* work(), second half: self.buffer.read(&mut self.result).enq().unwrap();
\* work() returns and App::new hands the App to event::run.
Read ==
    /\ pc = "enqueued"
    /\ ReadReady
    /\ result' = buffer
    /\ dispatches' = dispatches + 1
    /\ pc' = "loop"
    /\ UNCHANGED <<variant, dims, env, pending, buffer, writers, oob, frame,
                   zoomEvents, iter_limit, wi, cm>>

\* EventHandler::draw of main_cp.rs:
\*   let height = self.dim.0; let width = self.dim.1;
\*   let mut image = RgbaImage::new(height, width);
\*   for (x,y,pixel) in image.enumerate_pixels_mut() { ... iters[(y*width + x)] }
\* RgbaImage::new takes (width, height): the image is dim.0 wide, dim.1 high.
HostIndexCp(d, x, y) == y * d[2] + x

\* EventHandler::draw of main.rs: Image::from_rgba8(ctx, dim.0, dim.1, &colors)
\* shows pixel (x, y) from bytes 4 * (y * dim.0 + x) ..
HostIndexMain(d, x, y) == y * d[1] + x

HostIndex(v, d, x, y) ==
    IF v = "main" THEN HostIndexMain(d, x, y) ELSE HostIndexCp(d, x, y)

\* The pixels of the displayed image: dim.0 columns, dim.1 rows.
ImagePixels(d) == (0..(d[1] - 1)) \X (0..(d[2] - 1))

\* update() does nothing; draw() builds the image from result and presents
\* it.  Indexing the Vec past its length panics.
Draw ==
    /\ pc = "loop"
    /\ IF \E q \in ImagePixels(dims) :
              HostIndex(variant, dims, q[1], q[2]) \notin DOMAIN result
       THEN /\ pc' = "panicked"
            /\ frame' = frame
       ELSE /\ pc' = pc
            /\ frame' =
                 [drawn |-> TRUE,
                  src |-> [q \in ImagePixels(dims) |->
                              HostIndex(variant, dims, q[1], q[2])],
                  img |-> [q \in ImagePixels(dims) |->
                              LET cell == result[HostIndex(variant, dims, q[1], q[2])]
                              IN  IF variant = "main" THEN cell ELSE color(cell)],
                  from |-> result,
                  inflight |-> pending,
                  dispatches |-> dispatches,
                  zooms |-> zoomEvents]
    /\ UNCHANGED <<variant, dims, env, pending, buffer, writers, oob, result,
                   dispatches, zoomEvents, iter_limit, wi, cm>>

\* A mouse-wheel event delivered by event::run.  App implements only update
\* and draw, so the trait's default mouse_wheel_event runs: it does nothing.
MouseWheel ==
    /\ pc = "loop"
    /\ zoomEvents < MaxZoomEvents
    /\ zoomEvents' = zoomEvents + 1
    /\ UNCHANGED <<variant, dims, env, pc, pending, buffer, writers, oob,
                   result, frame, dispatches, iter_limit, wi, cm>>

Next ==
    \/ New
    \/ Enqueue
    \/ \E p \in pending : WorkItem(p)
    \/ Read
    \/ Draw
    \/ MouseWheel

Spec == Init /\ [][Next]_vars

(***************************************************************************)
(* One work item of the kernel, statement by statement, for any pixel of   *)
(* any grid and any iter_limit.                                            *)
(***************************************************************************)
KernelDims == (1..MaxDim) \X (1..MaxDim)

InitKernel ==
    /\ variant \in Variants
    /\ dims \in KernelDims
    /\ iter_limit \in 1..MaxIterLimit
    /\ \E p \in WorkItems(dims) : wi = WorkItemEntry(p[1], p[2])
    /\ buffer = [i \in 0..(BufLen(dims) - 1) |-> InitialCell(variant)]
    /\ env = "ok"
    /\ pc = "enqueued"
    /\ pending = {}
    /\ writers = << >>
    /\ oob = {}
    /\ result = << >>
    /\ frame = NoFrame
    /\ dispatches = 0
    /\ zoomEvents = 0
    /\ cm = IdleMapper

\* if (px >= width || py >= height) return;  then x0, y0, x, y are set.
KEntry ==
    /\ wi.pc = "entry"
    /\ wi' = IF wi.px >= dims[1] \/ wi.py >= dims[2]
             THEN [wi EXCEPT !.pc = "done"]
             ELSE WorkItemStart(wi.px, wi.py, dims[1], dims[2])
    /\ UNCHANGED <<variant, dims, env, pc, pending, buffer, writers, oob,
                   result, frame, dispatches, zoomEvents, iter_limit, cm>>

\* The loop head and one pass through the loop body.
KStep ==
    /\ wi.pc = "loop"
    /\ wi' = LoopStep(wi, iter_limit)
    /\ UNCHANGED <<variant, dims, env, pc, pending, buffer, writers, oob,
                   result, frame, dispatches, zoomEvents, iter_limit, cm>>

\* The store that ends the work item.
KStore ==
    /\ wi.pc = "store"
    /\ \E val \in StoreValues(variant, wi.iteration, iter_limit) :
          buffer' = [buffer EXCEPT ![BufIndex(dims[1], wi.px, wi.py)] = val]
    /\ wi' = [wi EXCEPT !.pc = "done"]
    /\ UNCHANGED <<variant, dims, env, pc, pending, writers, oob, result,
                   frame, dispatches, zoomEvents, iter_limit, cm>>

NextKernel == KEntry \/ KStep \/ KStore

SpecKernel == InitKernel /\ [][NextKernel]_vars

(***************************************************************************)
(* The colour mappers as functions of the iteration count: the kernel's    *)
(* discrete policy (main) and the host's gradient (main_cp), each applied  *)
(* twice to the same input.                                                *)
(***************************************************************************)
InitColor ==
    /\ variant \in Variants
    /\ iter_limit = MAX_ITER
    /\ \E it \in 0..MAX_ITER :
          cm = [pc |-> "ready", iteration |-> it, idx |-> -1, outs |-> << >>]
    /\ dims = <<1, 1>>
    /\ env = "ok"
    /\ pc = "loop"
    /\ pending = {}
    /\ buffer = << >>
    /\ writers = << >>
    /\ oob = {}
    /\ result = << >>
    /\ frame = NoFrame
    /\ dispatches = 0
    /\ zoomEvents = 0
    /\ wi = IdleItem

ApplyDiscrete ==
    /\ variant = "main"
    /\ cm.pc = "ready"
    /\ Len(cm.outs) < 2
    /\ \E c \in KernelColors(cm.iteration, iter_limit) :
          cm' = [cm EXCEPT !.outs = Append(@, c),
                           !.idx = IF cm.iteration = iter_limit THEN -1
                                   ELSE PaletteIndex(cm.iteration, iter_limit)]
    /\ UNCHANGED <<variant, dims, env, pc, pending, buffer, writers, oob,
                   result, frame, dispatches, zoomEvents, iter_limit, wi>>

ApplyContinuous ==
    /\ variant = "main_cp"
    /\ cm.pc = "ready"
    /\ Len(cm.outs) < 2
    /\ cm' = [cm EXCEPT !.outs = Append(@, color(cm.iteration))]
    /\ UNCHANGED <<variant, dims, env, pc, pending, buffer, writers, oob,
                   result, frame, dispatches, zoomEvents, iter_limit, wi>>

NextColor == ApplyDiscrete \/ ApplyContinuous

SpecColor == InitColor /\ [][NextColor]_vars

(***************************************************************************)
(* The reference evaluator of spec section 4.2: z0 = 0, z = z*z + c, stop  *)
(* at the first step with |z|^2 > 4.0 and return the counter, or return    *)
(* iter_limit when the counter reaches it.                                 *)
(***************************************************************************)
EscapeTestRef(x, y) == FMul(x, x) + FMul(y, y) > 4 * SCALE

RECURSIVE evaluate(_, _, _, _, _, _)
evaluate(x0, y0, x, y, counter, limit) ==
    IF counter >= limit THEN limit
    ELSE LET xn == FMul(x, x) - FMul(y, y) + x0
             yn == FMul(2 * x, y) + y0
         IN  IF EscapeTestRef(xn, yn) THEN counter
             ELSE evaluate(x0, y0, xn, yn, counter + 1, limit)

\* The work item whose store lands on buffer index i: column i mod width of
\* row i div width.
Writer(d, i) == <<i % d[1], i \div d[1]>>

(***************************************************************************)
(*                               Properties                                *)
(***************************************************************************)

\* C1 (SpecKernel): for every pixel and every iter_limit >= 1 the loop's
\* counter stays within 0..iter_limit; when the loop has been left, the
\* counter equals iter_limit exactly when the escape test never succeeded
\* (no break was taken); main_cp stores exactly that counter.
C1_IterationInRange ==
    /\ wi.iteration \in 0..iter_limit
    /\ wi.pc \in {"store", "done"} =>
          ((wi.iteration = iter_limit) <=> ~wi.broke)
    /\ (wi.pc = "done" /\ variant = "main_cp") =>
          buffer[BufIndex(dims[1], wi.px, wi.py)] = wi.iteration

\* C1 witness: a pixel that never escaped has been stored with the largest
\* limit, on a grid with more than one row and column.
C1_Witness ==
    /\ wi.pc = "done"
    /\ ~wi.broke
    /\ wi.iteration = MaxIterLimit
    /\ wi.px > 0 /\ wi.py > 0

\* C2 (Spec): no work item writes outside the buffer; an index is written
\* at most once and only by the work item of its row and column; once the
\* dispatch is complete every index 0 .. dims.0*dims.1 - 1 has been written
\* exactly once and holds the value of its own pixel, whatever the order in
\* which the work items ran.
C2_EachIndexWrittenOnce ==
    /\ oob = {}
    /\ \A i \in DOMAIN writers :
          /\ Len(writers[i]) <= 1
          /\ \A k \in 1..Len(writers[i]) : writers[i][k] = Writer(dims, i)
          /\ Len(writers[i]) = 0 => buffer[i] = InitialCell(variant)
          /\ Len(writers[i]) = 1 =>
                buffer[i] \in KernelOutputs(variant, dims, Writer(dims, i))
    /\ (pc \in {"enqueued", "loop"} /\ pending = {}) =>
          /\ DOMAIN buffer = 0..(dims[1] * dims[2] - 1)
          /\ \A i \in DOMAIN buffer : writers[i] = << Writer(dims, i) >>

\* C2 witness: the dispatch of a grid with dims.0 # dims.1 has completed.
C2_Witness ==
    /\ pc = "loop"
    /\ pending = {}
    /\ dims = <<2, 3>>
    /\ \A i \in DOMAIN buffer : Len(writers[i]) = 1

\* C3 (SpecKernel): the kernel classifies a pixel as interior (its counter
\* ends at iter_limit) exactly when the reference evaluator with the escape
\* bound |z|^2 > 4.0 does.
C3_AgreesWithReference ==
    wi.pc = "done" =>
        ((wi.iteration = iter_limit)
            <=> (evaluate(wi.x0, wi.y0, 0, 0, 0, iter_limit) = iter_limit))

\* C4 (SpecColor): in the discrete policy the palette index used for a
\* non-interior iteration count is a row of the colour table.
C4_PaletteIndexInRange ==
    (variant = "main" /\ Len(cm.outs) > 0 /\ cm.iteration < iter_limit) =>
        cm.idx \in PaletteRows

\* C5 (SpecColor): both mappers send iteration = iter_limit to (0,0,0,255),
\* give every other pixel alpha 255, and yield the same RGBA whenever they
\* are applied to the same (iteration, iter_limit, palette).
C5_MapperDeterministicOpaque ==
    /\ \A k \in 1..Len(cm.outs) :
          /\ cm.outs[k][4] = 255
          /\ cm.iteration = iter_limit => cm.outs[k] = <<0, 0, 0, 255>>
    /\ Len(cm.outs) = 2 => cm.outs[1] = cm.outs[2]

\* C6 (SpecKernel): the kernel's viewport has r_max > r_min and c_max > c_min;
\* column 0 maps to re = -2.25 and row 0 to im = -1.5; re grows with px and
\* im with py; every pixel lies in [-2.25, 0.75) x [-1.5, 1.5).
C6_ViewportOrientation ==
    wi.pc # "entry" =>
    /\ r_max > r_min
    /\ c_max > c_min
    /\ wi.px = 0 => wi.x0 = R_MIN
    /\ wi.py = 0 => wi.y0 = C_MIN
    /\ R_MIN <= wi.x0 /\ wi.x0 < R_MAX
    /\ C_MIN <= wi.y0 /\ wi.y0 < C_MAX
    /\ \A px \in 0..(dims[1] - 2) :
          pixel_x0(px + 1, dims[1]) > pixel_x0(px, dims[1])
    /\ \A py \in 0..(dims[2] - 2) :
          pixel_y0(py + 1, dims[2]) > pixel_y0(py, dims[2])

\* C7 (Spec): every zoom event triggers a re-dispatch before the next frame:
\* a drawn frame comes from the dispatch issued after the last zoom event
\* delivered before it (one initial dispatch plus one per zoom event).
C7_ZoomTriggersRedispatch ==
    frame.drawn => frame.dispatches = 1 + frame.zooms

\* C8 (Spec): without an accelerator, or with a failing build, configuring
\* the backend does not abort the program.
C8_NoAbortOnBackendFailure ==
    env # "ok" => pc # "panicked"

\* C9 (Spec): the event loop starts only after the first dispatch has
\* completed, and whenever draw has read the result no work item was in
\* flight and the result was the device buffer of a finished dispatch, every
\* index of it written.
C9_DrawSeesFinishedDispatch ==
    /\ pc = "loop" => (dispatches >= 1 /\ pending = {})
    /\ pc = "loop" =>
          /\ result = buffer
          /\ \A i \in DOMAIN result : Len(writers[i]) = 1
    /\ frame.drawn =>
          /\ frame.inflight = {}
          /\ frame.from = buffer
          /\ DOMAIN frame.from = 0..(dims[1] * dims[2] - 1)
          /\ \A i \in DOMAIN frame.from : Len(writers[i]) = 1

\* C9 witness: a frame of a grid of at least four pixels has been drawn.
C9_Witness ==
    /\ frame.drawn
    /\ dims[1] * dims[2] >= 4
    /\ frame.dispatches = 1

\* C10 (Spec): for every dims, the host's draw never indexes the buffer out
\* of range, and the index it reads for displayed pixel (x, y) is the index
\* the kernel wrote for (px = x, py = y).
C10_AxisConventionUniform ==
    /\ env = "ok" => pc # "panicked"
    /\ frame.drawn =>
          \A q \in DOMAIN frame.src :
              /\ frame.src[q] = BufIndex(dims[1], q[1], q[2])
              /\ frame.src[q] \in 0..(dims[1] * dims[2] - 1)

=============================================================================
